---------------------------- MODULE Spec2Model ----------------------------
(***************************************************************************)
(* President Sim backend (server.js): the stat vector of a session, the    *)
(* delta tables, the delta applicator, the achievement and threshold       *)
(* evaluators, and the request handlers that drive them over the SQLite    *)
(* tables Session, Stats, TimelineEvent, Achievement, Archive and          *)
(* MultiplayerMatch; the archive encoder; and the handlers of the browser  *)
(* page (core.js) that send requests to the server.                        *)
(*                                                                         *)
(* JavaScript objects are modelled as functions from own property names to *)
(* values.  A property read o[k] walks the prototype chain, so it is       *)
(* modelled by View(o, proto): own properties first, then those of         *)
(* Object.prototype.  A table lookup TABLE[key] is a property read too: it *)
(* finds the table's own entries, and for the key "__proto__" it finds     *)
(* Object.prototype itself.                                                *)
(***************************************************************************)
EXTENDS Integers, Sequences, FiniteSets, TLC

VARIABLES
    Session,           \* table Session: id -> [chaosThreshold, ended]
    Stats,             \* table Stats: sessionId -> row
    TimelineEvent,     \* table TimelineEvent: sessionId -> sequence of event types
    Achievement,       \* table Achievement: sessionId -> sequence of keys (one per row)
    Archive,           \* table Archive: sessionId -> sequence of payloads
    MultiplayerMatch,  \* table MultiplayerMatch: matchId -> [sessionAId, sessionBId, ended]
    LAW_DELTAS,        \* the law delta table (an object the handlers hold by reference)
    CRISIS_DELTAS,     \* the crisis delta table
    ObjectPrototype,   \* own properties added to Object.prototype at run time
    handled,           \* number of requests answered so far
    req,               \* the last request served
    resp,              \* the last response sent
    applyCalls,        \* the calls of applyDeltas the last request made: arguments and result
    handlers,          \* event loop: the handler callback of each request received
    fnStats,           \* function harness: the vector the functions are applied to
    fnRet,             \* function harness: the last call and what it returned
    window             \* browser page (core.js): window.current.sessionId, the HUD, the last handler run

vars == << Session, Stats, TimelineEvent, Achievement, Archive, MultiplayerMatch,
           LAW_DELTAS, CRISIS_DELTAS, ObjectPrototype, handled, req, resp, applyCalls,
           handlers, fnStats, fnRet, window >>

dbVars == << Session, Stats, TimelineEvent, Achievement, Archive, MultiplayerMatch >>
heapVars == << LAW_DELTAS, CRISIS_DELTAS, ObjectPrototype >>
fnVars == << fnStats, fnRet >>
loopVars == << handlers >>
uiVars == << window >>

-----------------------------------------------------------------------------
(* Bounds of the model *)

\* Requests are taken until this many have been answered.
MaxRequests == 4

SessionIds == {"s1", "s2"}
MatchIds == {"m1"}

\* A request field that is absent (undefined) or empty: `!field` holds.
Missing == "<missing>"

Max(a, b) == IF a >= b THEN a ELSE b
Min(a, b) == IF a <= b THEN a ELSE b

\* x || d for a number x (0 is falsy)
OrElse(x, d) == IF x = 0 THEN d ELSE x

EmptyObject == [k \in {} |-> 0]

\* o.k = v on object o
SetProp(o, k, v) == [x \in (DOMAIN o) \cup {k} |-> IF x = k THEN v ELSE o[x]]

\* What property reads on an object with own properties `own` return, its
\* prototype chain ending in Object.prototype with own properties `proto`.
View(own, proto) == [k \in (DOMAIN own) \cup (DOMAIN proto) |->
                        IF k \in DOMAIN own THEN own[k] ELSE proto[k]]

-----------------------------------------------------------------------------
(* Game engine config *)

DEFAULT_STATS ==
    [approval |-> 50, stability |-> 50, economy |-> 50, justice |-> 50,
     power |-> 50, chaos |-> 0, laws |-> 0, crises |-> 0]

LAW_DELTAS_INIT ==
    [tax_cut        |-> [approval |-> 5, economy |-> 8, stability |-> -2, chaos |-> -1, power |-> 0],
     emergency_rule |-> [approval |-> -10, stability |-> 10, justice |-> -8, power |-> 12, chaos |-> 5],
     welfare_boost  |-> [approval |-> 8, economy |-> -6, justice |-> 5, chaos |-> -2, power |-> 0],
     police_reform  |-> [approval |-> -3, justice |-> 12, stability |-> 2, chaos |-> -1, power |-> -2]]

CRISIS_DELTAS_INIT ==
    [pandemic       |-> [approval |-> -6, stability |-> -10, economy |-> -12, justice |-> 0, power |-> 5, chaos |-> 8],
     economic_shock |-> [approval |-> -8, stability |-> -6, economy |-> -15, justice |-> 0, power |-> 3, chaos |-> 6],
     diplomatic_row |-> [approval |-> -4, stability |-> -3, economy |-> -2, power |-> -1, chaos |-> 2]]

DIPLOMACY_DELTAS ==
    [treaty  |-> [approval |-> 2, stability |-> 3, economy |-> 2, chaos |-> -1],
     trade   |-> [approval |-> 1, economy |-> 6, stability |-> 1],
     rivalry |-> [approval |-> -3, stability |-> -4, chaos |-> 4]]

REBELLION_DELTAS ==
    [negotiate |-> [approval |-> 5, stability |-> 6, chaos |-> -8, power |-> -5],
     suppress  |-> [approval |-> -12, stability |-> 10, chaos |-> 10, power |-> 8],
     appease   |-> [approval |-> 3, stability |-> 4, economy |-> -4, chaos |-> -5]]

COSMIC_DELTAS ==
    [probe   |-> [approval |-> -2, chaos |-> 10, power |-> 3],
     entreat |-> [approval |-> 4, chaos |-> -6, stability |-> 2],
     distort |-> [approval |-> -20, chaos |-> 25, stability |-> -15, power |-> 20]]

\* rule.condition(s), by rule key
RuleCondition(key, s) ==
    CASE key = "stable_mandate"  -> s.stability >= 90
      [] key = "economic_wizard" -> s.economy >= 90
      [] key = "chaos_master"    -> s.chaos >= 80
      [] key = "iron_fist"       -> s.power >= 90 /\ s.justice < 30

ACHIEVEMENT_RULES_reordered == << "iron_fist", "chaos_master", "economic_wizard", "stable_mandate" >>

\* the rule keys, in the order of the rule list
ACHIEVEMENT_RULES == << "stable_mandate", "economic_wizard", "chaos_master", "iron_fist" >>

-----------------------------------------------------------------------------
(* Threshold evaluators *)

checkGameOver_stabilityFirst(stats, chaosThreshold) ==
    IF stats.stability <= 0 THEN [gameOver |-> TRUE, reason |-> "Stability collapsed"]
    ELSE IF stats.chaos >= chaosThreshold THEN [gameOver |-> TRUE, reason |-> "Chaos exceeded threshold"]
    ELSE IF stats.approval <= 0 THEN [gameOver |-> TRUE, reason |-> "Approval vanished"]
    ELSE [gameOver |-> FALSE]

checkGameOver(stats, chaosThreshold) ==
    IF stats.chaos >= chaosThreshold THEN [gameOver |-> TRUE, reason |-> "Chaos exceeded threshold"]
    ELSE IF stats.stability <= 0 THEN [gameOver |-> TRUE, reason |-> "Stability collapsed"]
    ELSE IF stats.approval <= 0 THEN [gameOver |-> TRUE, reason |-> "Approval vanished"]
    ELSE [gameOver |-> FALSE]

\* Math.round(n / 2) for an integer n: halves round towards +infinity
MathRoundHalf(n) == (n + 1) \div 2

checkRebellionChance_approvalFirst(stats) ==
    IF stats.approval < 15
    THEN [rebellion |-> TRUE, intensity |-> Max(10, 40 - stats.approval)]
    ELSE IF stats.chaos > 65 \/ stats.stability < 20
    THEN [rebellion |-> TRUE,
          intensity |-> Min(100, MathRoundHalf(stats.chaos + (50 - stats.stability)))]
    ELSE [rebellion |-> FALSE]

checkRebellionChance_noCap(stats) ==
    IF stats.chaos > 65 \/ stats.stability < 20
    THEN [rebellion |-> TRUE, intensity |-> MathRoundHalf(stats.chaos + (50 - stats.stability))]
    ELSE IF stats.approval < 15
    THEN [rebellion |-> TRUE, intensity |-> Max(10, 40 - stats.approval)]
    ELSE [rebellion |-> FALSE]

checkRebellionChance(stats) ==
    IF stats.chaos > 65 \/ stats.stability < 20
    THEN [rebellion |-> TRUE,
          intensity |-> Min(100, MathRoundHalf(stats.chaos + (50 - stats.stability)))]
    ELSE IF stats.approval < 15
    THEN [rebellion |-> TRUE, intensity |-> Max(10, 40 - stats.approval)]
    ELSE [rebellion |-> FALSE]

-----------------------------------------------------------------------------
(* Delta applicator *)

BoundedAxes == {"approval", "stability", "economy", "justice", "power"}

clampAxis_noUpper(v, d) == Max(0, v + d)

\* Math.max(0, Math.min(100, s[key] + deltas[key]))
clampAxis(v, d) == Max(0, Min(100, v + d))

chaosFloor_capped(c, d) == Max(0, Min(100, c + d))

\* Math.max(0, s.chaos + deltas.chaos)
chaosFloor(c, d) == Max(0, c + d)

addCounter_overwrite(c, d) == d

\* (s.laws || 0) + deltas.laws
addCounter(c, d) == OrElse(c, 0) + d

\* The object s after the loop over the bounded axes and the three ifs.
\* `deltas` is what property reads on the delta object return: deltas[key] is
\* undefined exactly when key is not in its domain.
applyAll(s, deltas) ==
    [k \in DOMAIN s |->
        IF k \notin DOMAIN deltas THEN s[k]
        ELSE IF k \in BoundedAxes THEN clampAxis(s[k], deltas[k])
        ELSE IF k = "chaos" THEN chaosFloor(s[k], deltas[k])
        ELSE IF k \in {"laws", "crises"} THEN addCounter(s[k], deltas[k])
        ELSE s[k]]

\* let s = stats: every write would go through to the caller's object.
applyDeltas_inPlace(stats, deltas) ==
    [stats |-> applyAll(stats, deltas), s |-> applyAll(stats, deltas)]

\* applyDeltas: `s` is the object returned, `stats` the argument object as the
\* call leaves it (s is a copy made by Object.assign, so it is left as it was).
applyDeltas(stats, deltas) ==
    [stats |-> stats, s |-> applyAll(stats, deltas)]

-----------------------------------------------------------------------------
(* Table helpers *)

Range(seq) == {seq[i] : i \in 1..Len(seq)}

\* INSERT ... ON CONFLICT(sessionId) DO UPDATE
upsertStats(tbl, row) ==
    [k \in (DOMAIN tbl) \cup {row.sessionId} |-> IF k = row.sessionId THEN row ELSE tbl[k]]

\* insertTimeline.run(ev): one more row of `type` for the session
pushTimeline(tl, sessionId, type) == [tl EXCEPT ![sessionId] = Append(@, type)]

\* insertAchievement.run(ach)
insertAchievement(ach, sessionId, key) == [ach EXCEPT ![sessionId] = Append(@, key)]

ruleFires_noGuard(existing, key, stats) == RuleCondition(key, stats)

\* !existing.includes(rule.key) && rule.condition(stats)
ruleFires(existing, key, stats) == key \notin existing /\ RuleCondition(key, stats)

\* evaluateAchievements over the tables `ach` and `tl` as the handler has left
\* them: the rows found, and the two tables after the inserts.
evaluateAchievements(sessionId, stats, ach, tl) ==
    LET existing == Range(ach[sessionId])
        found == SelectSeq(ACHIEVEMENT_RULES, LAMBDA key : ruleFires(existing, key, stats))
    IN [found |-> found,
        Achievement |-> [ach EXCEPT ![sessionId] = @ \o found],
        TimelineEvent |-> [tl EXCEPT ![sessionId] = @ \o [i \in 1..Len(found) |-> "achievement"]]]

\* Archive encoder.  A payload is given as the sequence of its scalar values in
\* key order (the keys and the punctuation are the same in every payload of one
\* shape); a string is given as a number that stands for its text.

\* the UTF-16 code units of the glyphSet literal
glyphSet ==
    << 8218, 263, 252, 8218, 250, 182, 8218, 250, 223, 8218, 250, 310,
       8218, 250, 8706, 8218, 250, 8721, 8218, 250, 322, 8218, 250, 315,
       8218, 250, 316, 8218, 250, 318, 8218, 250, 313, 8218, 250, 314,
       8218, 279, 214, 8218, 279, 318, 8218, 279, 302, 8218, 279, 322,
       8218, 250, 316, 8218, 282, 257, 8218, 282, 201, 8218, 282, 256,
       8218, 250, 325, 8218, 279, 244, 8218, 244, 220, 8218, 244, 274,
       8218, 244, 275, 8218, 244, 278, 8218, 244, 243, 8218, 244, 279,
       8218, 244, 244 >>

\* Buffer.from(JSON.stringify(obj), 'utf8'): one byte per scalar
JSONstringify(obj) == [i \in 1..Len(obj) |-> obj[i] % 256]

\* the Adler-32 check value of a buffer, as its four bytes
Adler32(buf) ==
    LET n == Len(buf)
        a[i \in 0..n] == IF i = 0 THEN 1 ELSE (a[i - 1] + buf[i]) % 65521
        b[i \in 0..n] == IF i = 0 THEN 0 ELSE (b[i - 1] + a[i]) % 65521
    IN << b[n] \div 256, b[n] % 256, a[n] \div 256, a[n] % 256 >>

\* zlib.deflateSync(buf): a new stream for every call, so the output is the
\* stream header, the deflate block of buf and the Adler-32 trailer of buf.
\* The block is kept as a stored block; its Huffman coding is left out.
deflateSync(buf) ==
    LET n == Len(buf)
    IN << 120, 156 >> \o << 1, n % 256, n \div 256, 255 - (n % 256), 255 - (n \div 256) >>
          \o buf \o Adler32(buf)

\* the char code of a base64 digit
Base64Char(v) ==
    IF v < 26 THEN 65 + v
    ELSE IF v < 52 THEN 97 + (v - 26)
    ELSE IF v < 62 THEN 48 + (v - 52)
    ELSE IF v = 62 THEN 43 ELSE 47

\* def.toString('base64'), as char codes: four digits for every three bytes,
\* padded with '='
toBase64(buf) ==
    LET n == Len(buf)
        byte(i) == IF i <= n THEN buf[i] ELSE 0
        char(k) ==
            LET g == (k - 1) \div 4
                j == (k - 1) % 4
                b0 == byte(3 * g + 1)
                b1 == byte(3 * g + 2)
                b2 == byte(3 * g + 3)
                digit == CASE j = 0 -> b0 \div 4
                           [] j = 1 -> (b0 % 4) * 16 + (b1 \div 16)
                           [] j = 2 -> (b1 % 16) * 4 + (b2 \div 64)
                           [] j = 3 -> b2 % 64
                pad == (j = 2 /\ 3 * g + 2 > n) \/ (j = 3 /\ 3 * g + 3 > n)
            IN IF pad THEN 61 ELSE Base64Char(digit)
    IN [k \in 1..(4 * ((n + 2) \div 3)) |-> char(k)]

\* The encoder on a stream that is shared by all calls: only the first call of
\* the process writes the stream header.
compressToGlyphs_sharedStream(obj) ==
    LET json == JSONstringify(obj)
        first == \A s \in DOMAIN Archive : Archive[s] = << >>
        def == IF first THEN deflateSync(json) ELSE SubSeq(deflateSync(json), 3, Len(deflateSync(json)))
        b64 == toBase64(def)
    IN [i \in 1..Len(b64) |-> glyphSet[(b64[i] % Len(glyphSet)) + 1]]

\* compressToGlyphs(obj): glyphs += glyphSet[ch % glyphSet.length] for every
\* char of the base64 text
compressToGlyphs(obj) ==
    LET json == JSONstringify(obj)
        def == deflateSync(json)
        b64 == toBase64(def)
    IN [i \in 1..Len(b64) |-> glyphSet[(b64[i] % Len(glyphSet)) + 1]]

\* the number that stands for a session id in a payload
IdToken(sessionId) == IF sessionId = "s1" THEN 1 ELSE 2

\* the scalars of a Stats row, in column order
RowValues(row) ==
    << IdToken(row.sessionId), row.approval, row.stability, row.economy, row.justice,
       row.power, row.chaos, row.laws, row.crises >>

-----------------------------------------------------------------------------
(* Property lookups in the delta tables *)

\* Keys a request may carry besides the tables' own: one that no object
\* defines, and one that every object inherits from Object.prototype.
FreeKeys == {"unlisted", "__proto__"}

\* TABLE[key] || fallback: the own properties of the object the lookup yields
Lookup(table, key, fallback) ==
    IF key \in DOMAIN table THEN table[key]
    ELSE IF key = "__proto__" THEN ObjectPrototype
    ELSE fallback

\* method modifier of /crises/resolve
MethodMod(method) ==
    CASE method = "bold"     -> [power |-> 5, chaos |-> 4, approval |-> -3]
      [] method = "measured" -> [stability |-> 4, approval |-> 2, economy |-> -3]
      [] method = "ignore"   -> [approval |-> -10, stability |-> -12, chaos |-> 10]
      [] OTHER               -> EmptyObject

\* The own properties of merged after the loop over Object.keys(methodMod):
\* merged[k] = (merged[k] || 0) + methodMod[k], on an object that starts with
\* the own properties of base.
mergeAll(base, methodMod) ==
    LET read == View(base, ObjectPrototype)
    IN [k \in (DOMAIN base) \cup (DOMAIN methodMod) |->
           IF k \in DOMAIN methodMod
           THEN (IF k \in DOMAIN read THEN OrElse(read[k], 0) ELSE 0) + methodMod[k]
           ELSE base[k]]

\* const merged = base: every write would go to the object the table holds.
mergeDeltas_inPlace(base, methodMod) ==
    [base |-> SetProp(mergeAll(base, methodMod), "crises", 1),
     merged |-> SetProp(mergeAll(base, methodMod), "crises", 1)]

\* const merged = Object.assign({}, base), the loop, merged.crises = 1:
\* `merged` is the object handed to applyDeltas, `base` the looked-up object as
\* these lines leave it (merged is a copy, so base is left as it was).
mergeDeltas(base, methodMod) ==
    [base |-> base, merged |-> SetProp(mergeAll(base, methodMod), "crises", 1)]

-----------------------------------------------------------------------------
(* Initial state: the process has started, the tables are empty *)

NoCall == [fn |-> "none"]

\* what a request carried, as far as the handler that served it read it
Request(route, sessionId, key, method) ==
    [route |-> route, sessionId |-> sessionId, key |-> key, method |-> method]

NoRequest == Request("none", Missing, Missing, Missing)

\* req.body[name], Missing (undefined) when the body has no such field
Field(body, name) == IF name \in DOMAIN body THEN body[name] ELSE Missing

\* the page as loaded: window.current.sessionId is null, the HUD shows what
\* the markup holds, no handler has run
PageLoaded ==
    [sessionId |-> Missing, hud |-> EmptyObject, handler |-> "none", sent |-> FALSE,
     threw |-> FALSE]

Init ==
    /\ Session = EmptyObject
    /\ Stats = EmptyObject
    /\ TimelineEvent = EmptyObject
    /\ Achievement = EmptyObject
    /\ Archive = EmptyObject
    /\ MultiplayerMatch = EmptyObject
    /\ LAW_DELTAS = LAW_DELTAS_INIT
    /\ CRISIS_DELTAS = CRISIS_DELTAS_INIT
    /\ ObjectPrototype = EmptyObject
    /\ handled = 0
    /\ req = NoRequest
    /\ resp = [route |-> "none", status |-> 0]
    /\ applyCalls = << >>
    /\ handlers = EmptyObject
    /\ fnStats = DEFAULT_STATS
    /\ fnRet = NoCall
    /\ window = PageLoaded

-----------------------------------------------------------------------------
(* Request inputs *)

\* chaosThreshold values a session is started with (100 is the default)
Thresholds == {0, 25, 100}

LawKeys == (DOMAIN LAW_DELTAS_INIT) \cup FreeKeys
CrisisKeys == (DOMAIN CRISIS_DELTAS_INIT) \cup FreeKeys
DiplomacyKeys == (DOMAIN DIPLOMACY_DELTAS) \cup FreeKeys
RebellionKeys == (DOMAIN REBELLION_DELTAS) \cup FreeKeys
CosmicKeys == (DOMAIN COSMIC_DELTAS) \cup FreeKeys
Methods == {"bold", "measured", "ignore", Missing}
UnlockKeys == {"distorted_realm", "stable_mandate"}

\* deltaA / deltaB bodies of /multiplayer/update
MpDeltas ==
    { [approval |-> 60, stability |-> 40],
      [approval |-> -60, stability |-> -60],
      [chaos |-> 120],
      [chaos |-> -200, economy |-> 45],
      [laws |-> -1],
      [crises |-> -2, power |-> 45, justice |-> -25] }
MpDeltasB == { [chaos |-> 120, crises |-> 1] }

\* an optional request field: << >> when it is absent, << v >> when it is v
Optional(S) == { << >> } \cup { << v >> : v \in S }

\* the server is still taking requests
Listening == handled < MaxRequests

-----------------------------------------------------------------------------
(* Handlers *)

\* a rejection that first logs the error to the timeline of every session
Reject_logged(path, code) ==
    /\ req' = Request("rejected", Missing, Missing, Missing)
    /\ resp' = [route |-> "rejected", path |-> path, status |-> code]
    /\ applyCalls' = << >>
    /\ handled' = handled + 1
    /\ TimelineEvent' = [s \in DOMAIN TimelineEvent |-> Append(TimelineEvent[s], "error")]
    /\ UNCHANGED << Session, Stats, Achievement, Archive, MultiplayerMatch, heapVars, fnVars >>

\* return res.status(code).json({ error }) before anything is written; path is
\* the route of the handler that returns
Reject(path, code) ==
    /\ req' = Request("rejected", Missing, Missing, Missing)
    /\ resp' = [route |-> "rejected", path |-> path, status |-> code]
    /\ applyCalls' = << >>
    /\ handled' = handled + 1
    /\ UNCHANGED << dbVars, heapVars, fnVars >>

\* one call of applyDeltas, as the handler makes it
Call(statsRow, deltas) ==
    [stats |-> statsRow, deltas |-> deltas, ret |-> applyDeltas(statsRow, deltas)]

\* The common tail of the action handlers: upsertStats.run(newStats), then
\* evaluateAchievements, checkRebellionChance, (checkGameOver,) res.json.
\* `tl` and `ach` are the two tables after the handler's own inserts.
Resolve(request, call, tl, ach, withGameOver) ==
    LET route == request.route
        sessionId == request.sessionId
        newStats == call.ret.s
        ev == evaluateAchievements(sessionId, newStats, ach, tl)
        rebellion == checkRebellionChance(newStats)
        chaosThreshold == OrElse(Session[sessionId].chaosThreshold, 100)
        gameOver == checkGameOver(newStats, chaosThreshold)
        body == [route |-> route, status |-> 200, stats |-> newStats, achievements |-> ev.found,
                 rebellion |-> rebellion]
    IN /\ Stats' = upsertStats(Stats, newStats)
       /\ TimelineEvent' = ev.TimelineEvent
       /\ Achievement' = ev.Achievement
       /\ req' = request
       /\ resp' = IF withGameOver THEN body @@ [gameOver |-> gameOver] ELSE body
       /\ applyCalls' = << call >>
       /\ handled' = handled + 1
       /\ UNCHANGED << Session, Archive, MultiplayerMatch, fnVars >>

\* POST /session/start, the handler on the body it received
PostSessionStart(body) ==
    LET chaosThreshold == IF "chaosThreshold" \in DOMAIN body THEN body.chaosThreshold ELSE 100
    IN
    /\ SessionIds \ DOMAIN Session # {}
    /\ LET id == CHOOSE x \in SessionIds \ DOMAIN Session : TRUE
           baseStats == [sessionId |-> id] @@ DEFAULT_STATS
       IN /\ Session' = Session @@ (id :> [chaosThreshold |-> chaosThreshold, ended |-> FALSE])
          /\ Stats' = upsertStats(Stats, baseStats)
          /\ TimelineEvent' = TimelineEvent @@ (id :> << "system" >>)
          /\ Achievement' = Achievement @@ (id :> << >>)
          /\ Archive' = Archive @@ (id :> << >>)
          /\ req' = Request("/session/start", id, Missing, Missing)
          /\ resp' = [route |-> "/session/start", status |-> 200, sessionId |-> id, stats |-> baseStats]
    /\ applyCalls' = << >>
    /\ handled' = handled + 1
    /\ UNCHANGED << MultiplayerMatch, heapVars, fnVars >>

\* POST /session/start
SessionStart(chaosThreshold) ==
    /\ Listening
    /\ UNCHANGED << loopVars, uiVars >>
    /\ PostSessionStart([chaosThreshold |-> chaosThreshold])

\* POST /laws/enforce from the row getStatsStmt.get returned onwards
LawsEnforceFrom(statsRow, sessionId, lawKey) ==
    LET \* const deltas = LAW_DELTAS[lawKey] || { approval: 0 }; deltas.laws = 1
        own == SetProp(Lookup(LAW_DELTAS, lawKey, [approval |-> 0]), "laws", 1)
        isEntry == lawKey \in DOMAIN LAW_DELTAS
        isProto == ~isEntry /\ lawKey = "__proto__"
        proto == IF isProto THEN own ELSE ObjectPrototype
        call == Call(statsRow, View(own, proto))
    IN /\ LAW_DELTAS' = IF isEntry THEN [LAW_DELTAS EXCEPT ![lawKey] = own] ELSE LAW_DELTAS
       /\ ObjectPrototype' = proto
       /\ UNCHANGED CRISIS_DELTAS
       /\ Resolve(Request("/laws/enforce", sessionId, lawKey, Missing), call,
                  pushTimeline(TimelineEvent, sessionId, "law"), Achievement, TRUE)

\* POST /laws/enforce, the handler on the body it received
PostLawsEnforce(body) ==
    LET sessionId == Field(body, "sessionId")
        lawKey == Field(body, "lawKey")
    IN
    /\ IF sessionId = Missing \/ lawKey = Missing THEN Reject("/laws/enforce", 400)
       ELSE IF sessionId \notin DOMAIN Stats THEN Reject("/laws/enforce", 404)
       ELSE LawsEnforceFrom(Stats[sessionId], sessionId, lawKey)

\* POST /laws/enforce
LawsEnforce(sessionId, lawKey) ==
    /\ Listening
    /\ UNCHANGED << loopVars, uiVars >>
    /\ PostLawsEnforce([sessionId |-> sessionId, lawKey |-> lawKey])

\* POST /crises/resolve, the handler on the body it received
PostCrisesResolve(body) ==
    LET sessionId == Field(body, "sessionId")
        crisisKey == Field(body, "crisisKey")
        method == Field(body, "method")
    IN
    /\ IF sessionId = Missing \/ crisisKey = Missing THEN Reject("/crises/resolve", 400)
       ELSE IF sessionId \notin DOMAIN Stats THEN Reject("/crises/resolve", 404)
       ELSE
         /\ LET base == Lookup(CRISIS_DELTAS, crisisKey, [approval |-> -2])
                m == mergeDeltas(base, MethodMod(method))
                isEntry == crisisKey \in DOMAIN CRISIS_DELTAS
                isProto == ~isEntry /\ crisisKey = "__proto__"
                call == Call(Stats[sessionId], View(m.merged, ObjectPrototype))
            IN /\ CRISIS_DELTAS' = IF isEntry THEN [CRISIS_DELTAS EXCEPT ![crisisKey] = m.base]
                                   ELSE CRISIS_DELTAS
               /\ ObjectPrototype' = IF isProto THEN m.base ELSE ObjectPrototype
               /\ UNCHANGED LAW_DELTAS
               /\ Resolve(Request("/crises/resolve", sessionId, crisisKey, method), call,
                          pushTimeline(TimelineEvent, sessionId, "crisis"), Achievement, TRUE)

\* POST /crises/resolve
CrisesResolve(sessionId, crisisKey, method) ==
    /\ Listening
    /\ UNCHANGED << loopVars, uiVars >>
    /\ PostCrisesResolve([sessionId |-> sessionId, crisisKey |-> crisisKey, method |-> method])

\* POST /diplomacy/action, the handler on the body it received
PostDiplomacyAction(body) ==
    LET sessionId == Field(body, "sessionId")
        actionKey == Field(body, "actionKey")
    IN
    /\ IF sessionId = Missing \/ actionKey = Missing THEN Reject("/diplomacy/action", 400)
       ELSE IF sessionId \notin DOMAIN Stats THEN Reject("/diplomacy/action", 404)
       ELSE
         /\ LET deltas == Lookup(DIPLOMACY_DELTAS, actionKey, [approval |-> 0])
                call == Call(Stats[sessionId], View(deltas, ObjectPrototype))
            IN Resolve(Request("/diplomacy/action", sessionId, actionKey, Missing), call,
                       pushTimeline(TimelineEvent, sessionId, "diplomacy"),
                       Achievement, FALSE)
         /\ UNCHANGED heapVars

\* POST /diplomacy/action
DiplomacyAction(sessionId, actionKey) ==
    /\ Listening
    /\ UNCHANGED << loopVars, uiVars >>
    /\ PostDiplomacyAction([sessionId |-> sessionId, actionKey |-> actionKey])

\* POST /rebellion/act, the handler on the body it received
PostRebellionAct(body) ==
    LET sessionId == Field(body, "sessionId")
        act == Field(body, "act")
    IN
    /\ IF sessionId = Missing \/ act = Missing THEN Reject("/rebellion/act", 400)
       ELSE IF sessionId \notin DOMAIN Stats THEN Reject("/rebellion/act", 404)
       ELSE
         /\ LET deltas == Lookup(REBELLION_DELTAS, act, [approval |-> 0])
                call == Call(Stats[sessionId], View(deltas, ObjectPrototype))
            IN Resolve(Request("/rebellion/act", sessionId, act, Missing), call,
                       pushTimeline(TimelineEvent, sessionId, "rebellion"),
                       Achievement, TRUE)
         /\ UNCHANGED heapVars

\* POST /rebellion/act
RebellionAct(sessionId, act) ==
    /\ Listening
    /\ UNCHANGED << loopVars, uiVars >>
    /\ PostRebellionAct([sessionId |-> sessionId, act |-> act])

\* POST /cosmic/act, the handler on the body it received
PostCosmicAct(body) ==
    LET sessionId == Field(body, "sessionId")
        actKey == Field(body, "actKey")
    IN
    /\ IF sessionId = Missing \/ actKey = Missing THEN Reject("/cosmic/act", 400)
       ELSE IF sessionId \notin DOMAIN Stats THEN Reject("/cosmic/act", 404)
       ELSE
         /\ LET deltas == Lookup(COSMIC_DELTAS, actKey, [chaos |-> 5])
                call == Call(Stats[sessionId], View(deltas, ObjectPrototype))
                tl1 == pushTimeline(TimelineEvent, sessionId, "cosmic")
                distort == actKey = "distort"
                ach1 == IF distort THEN insertAchievement(Achievement, sessionId, "distorted_realm")
                        ELSE Achievement
                tl2 == IF distort THEN pushTimeline(tl1, sessionId, "achievement") ELSE tl1
            IN Resolve(Request("/cosmic/act", sessionId, actKey, Missing), call,
                       tl2, ach1, TRUE)
         /\ UNCHANGED heapVars

\* POST /cosmic/act
CosmicAct(sessionId, actKey) ==
    /\ Listening
    /\ UNCHANGED << loopVars, uiVars >>
    /\ PostCosmicAct([sessionId |-> sessionId, actKey |-> actKey])

\* POST /achievement/unlock (the session exists: the tables' foreign keys
\* are not part of the model)
AchievementUnlock(sessionId, key) ==
    /\ Listening
    /\ UNCHANGED << loopVars, uiVars >>
    /\ IF sessionId = Missing \/ key = Missing THEN Reject("/achievement/unlock", 400)
       ELSE
         /\ sessionId \in DOMAIN Session
         /\ Achievement' = insertAchievement(Achievement, sessionId, key)
         /\ TimelineEvent' = pushTimeline(TimelineEvent, sessionId, "achievement")
         /\ req' = Request("/achievement/unlock", sessionId, key, Missing)
         /\ resp' = [route |-> "/achievement/unlock", status |-> 200, achievement |-> key]
         /\ applyCalls' = << >>
         /\ handled' = handled + 1
         /\ UNCHANGED << Session, Stats, Archive, MultiplayerMatch, heapVars, fnVars >>

\* POST /session/end that also clears the session's achievement rows
SessionEnd_clearing(sessionId) ==
    /\ Listening
    /\ UNCHANGED << loopVars, uiVars >>
    /\ IF sessionId = Missing THEN Reject("/session/end", 400)
       ELSE IF sessionId \notin DOMAIN Stats THEN Reject("/session/end", 404)
       ELSE
         /\ LET stats == Stats[sessionId]
                archivePayload == << IdToken(sessionId) >> \o RowValues(stats)
                glyphs == compressToGlyphs(archivePayload)
            IN /\ Session' = [Session EXCEPT ![sessionId].ended = TRUE]
               /\ Archive' = [Archive EXCEPT ![sessionId] = Append(@, glyphs)]
               /\ Achievement' = [Achievement EXCEPT ![sessionId] = << >>]
               /\ TimelineEvent' = pushTimeline(TimelineEvent, sessionId, "archive")
               /\ req' = Request("/session/end", sessionId, Missing, Missing)
               /\ resp' = [route |-> "/session/end", status |-> 200, glyphs |-> glyphs]
         /\ applyCalls' = << >>
         /\ handled' = handled + 1
         /\ UNCHANGED << Stats, MultiplayerMatch, heapVars, fnVars >>

\* POST /session/end. updateSessionEnded runs before the stats lookup; when
\* the lookup finds nothing the session is unknown and the UPDATE matched no
\* row.
SessionEnd(sessionId) ==
    /\ Listening
    /\ UNCHANGED << loopVars, uiVars >>
    /\ IF sessionId = Missing THEN Reject("/session/end", 400)
       ELSE IF sessionId \notin DOMAIN Stats THEN Reject("/session/end", 404)
       ELSE
         /\ LET stats == Stats[sessionId]
                archivePayload == << IdToken(sessionId) >> \o RowValues(stats)
                glyphs == compressToGlyphs(archivePayload)
            IN /\ Session' = [Session EXCEPT ![sessionId].ended = TRUE]
               /\ Archive' = [Archive EXCEPT ![sessionId] = Append(@, glyphs)]
               /\ TimelineEvent' = pushTimeline(TimelineEvent, sessionId, "archive")
               /\ req' = Request("/session/end", sessionId, Missing, Missing)
               /\ resp' = [route |-> "/session/end", status |-> 200, glyphs |-> glyphs]
         /\ applyCalls' = << >>
         /\ handled' = handled + 1
         /\ UNCHANGED << Stats, Achievement, MultiplayerMatch, heapVars, fnVars >>

\* POST /archive/export
ArchiveExport(sessionId) ==
    /\ Listening
    /\ UNCHANGED << loopVars, uiVars >>
    /\ IF sessionId = Missing THEN Reject("/archive/export", 400)
       ELSE IF sessionId \notin DOMAIN Stats THEN Reject("/archive/export", 404)
       ELSE
         /\ LET sessionRow == << IdToken(sessionId), Session[sessionId].chaosThreshold,
                                 IF Session[sessionId].ended THEN 1 ELSE 0 >>
                payload == sessionRow \o RowValues(Stats[sessionId])
                              \o << Len(TimelineEvent[sessionId]), Len(Achievement[sessionId]) >>
                glyphs == compressToGlyphs(payload)
            IN /\ Archive' = [Archive EXCEPT ![sessionId] = Append(@, glyphs)]
               /\ TimelineEvent' = pushTimeline(TimelineEvent, sessionId, "archive")
               /\ req' = Request("/archive/export", sessionId, Missing, Missing)
               /\ resp' = [route |-> "/archive/export", status |-> 200, glyphs |-> glyphs]
         /\ applyCalls' = << >>
         /\ handled' = handled + 1
         /\ UNCHANGED << Session, Stats, Achievement, MultiplayerMatch, heapVars, fnVars >>

\* POST /multiplayer/start (both sessions exist: the tables' foreign keys
\* are not part of the model)
MultiplayerStart(sessionAId, sessionBId) ==
    /\ Listening
    /\ UNCHANGED << loopVars, uiVars >>
    /\ IF sessionAId = Missing \/ sessionBId = Missing THEN Reject("/multiplayer/start", 400)
       ELSE
         /\ sessionAId \in DOMAIN Session /\ sessionBId \in DOMAIN Session
         /\ MatchIds \ DOMAIN MultiplayerMatch # {}
         /\ LET matchId == CHOOSE m \in MatchIds \ DOMAIN MultiplayerMatch : TRUE
            IN /\ MultiplayerMatch' = MultiplayerMatch @@
                     (matchId :> [sessionAId |-> sessionAId, sessionBId |-> sessionBId,
                                  ended |-> FALSE])
               /\ TimelineEvent' = pushTimeline(pushTimeline(TimelineEvent, sessionAId, "system"),
                                                sessionBId, "system")
               /\ req' = Request("/multiplayer/start", sessionAId, sessionBId, Missing)
               /\ resp' = [route |-> "/multiplayer/start", status |-> 200, matchId |-> matchId]
         /\ applyCalls' = << >>
         /\ handled' = handled + 1
         /\ UNCHANGED << Session, Stats, Achievement, Archive, heapVars, fnVars >>

\* POST /multiplayer/update; deltaA and deltaB are optional
MultiplayerUpdate(matchId, deltaA, deltaB, end) ==
    /\ Listening
    /\ UNCHANGED << loopVars, uiVars >>
    /\ IF matchId \notin DOMAIN MultiplayerMatch THEN Reject("/multiplayer/update", 404)
       ELSE
         /\ LET match == MultiplayerMatch[matchId]
                a == match.sessionAId
                b == match.sessionBId
                doA == deltaA # << >> /\ a \in DOMAIN Stats
                callA == Call(Stats[a], View(deltaA[1], ObjectPrototype))
                stats1 == IF doA THEN upsertStats(Stats, callA.ret.s) ELSE Stats
                tl1 == IF doA THEN pushTimeline(TimelineEvent, a, "system") ELSE TimelineEvent
                doB == deltaB # << >> /\ b \in DOMAIN stats1
                callB == Call(stats1[b], View(deltaB[1], ObjectPrototype))
                stats2 == IF doB THEN upsertStats(stats1, callB.ret.s) ELSE stats1
                tl2 == IF doB THEN pushTimeline(tl1, b, "system") ELSE tl1
            IN /\ Stats' = stats2
               /\ TimelineEvent' = IF end THEN pushTimeline(pushTimeline(tl2, a, "system"), b, "system")
                                   ELSE tl2
               /\ MultiplayerMatch' = IF end THEN [MultiplayerMatch EXCEPT ![matchId].ended = TRUE]
                                      ELSE MultiplayerMatch
               /\ applyCalls' = (IF doA THEN << callA >> ELSE << >>) \o
                                (IF doB THEN << callB >> ELSE << >>)
               /\ req' = Request("/multiplayer/update", Missing, matchId, Missing)
               /\ resp' = [route |-> "/multiplayer/update", status |-> 200, ok |-> TRUE]
         /\ handled' = handled + 1
         /\ UNCHANGED << Session, Achievement, Archive, heapVars, fnVars >>

\* The requests a handler is sent: every session id with every key, and the
\* requests that lack the session id, the key, or both.
Requests(Keys) ==
    (SessionIds \X Keys)
    \cup { << Missing, "unlisted" >>, << Missing, Missing >> }
    \cup { << s, Missing >> : s \in SessionIds }

SessionRequests == SessionIds \cup {Missing}

Next ==
    \/ \E chaosThreshold \in Thresholds : SessionStart(chaosThreshold)
    \/ \E r \in Requests(LawKeys) : LawsEnforce(r[1], r[2])
    \/ \E r \in Requests(CrisisKeys), method \in Methods : CrisesResolve(r[1], r[2], method)
    \/ \E r \in Requests(DiplomacyKeys) : DiplomacyAction(r[1], r[2])
    \/ \E r \in Requests(RebellionKeys) : RebellionAct(r[1], r[2])
    \/ \E r \in Requests(CosmicKeys) : CosmicAct(r[1], r[2])
    \/ \E r \in Requests(UnlockKeys) : AchievementUnlock(r[1], r[2])
    \/ \E sessionId \in SessionRequests : SessionEnd(sessionId)
    \/ \E sessionId \in SessionRequests : ArchiveExport(sessionId)
    \/ \E sessionAId \in SessionRequests, sessionBId \in SessionRequests :
          MultiplayerStart(sessionAId, sessionBId)
    \/ \E matchId \in MatchIds, deltaA \in Optional(MpDeltas), deltaB \in Optional(MpDeltasB),
          end \in BOOLEAN :
          MultiplayerUpdate(matchId, deltaA, deltaB, end)

Spec == Init /\ [][Next]_vars

-----------------------------------------------------------------------------
(* The core functions applied to vectors drawn from a grid *)

FnVectors ==
    [approval : {0, 14, 15, 60}, stability : {-5, 0, 19, 20, 100},
     economy : {50, 95}, justice : {20, 50}, power : {50, 95},
     chaos : {0, 65, 66, 100, 250}, laws : {3}, crises : {0}]
    \cup { DEFAULT_STATS }

FnDeltas ==
    { SetProp(LAW_DELTAS_INIT[k], "laws", 1) : k \in DOMAIN LAW_DELTAS_INIT }
    \cup { mergeDeltas(CRISIS_DELTAS_INIT[k], MethodMod(m)).merged :
              k \in {"pandemic"}, m \in {"ignore", Missing} }
    \cup { COSMIC_DELTAS[k] : k \in DOMAIN COSMIC_DELTAS }
    \cup MpDeltas
    \cup { EmptyObject,
           [approval |-> -200, stability |-> 200, economy |-> 1, justice |-> -1,
            power |-> 0, chaos |-> -1, laws |-> 1, crises |-> 1] }

FnThresholds == {0, 25, 100, 121}

\* Achievement rows session s1 may hold when the functions are applied
FnUnlocked == { << >>, << "chaos_master", "distorted_realm" >> }

\* The database file outlives the process: the process has just started
\* (nothing handled yet, the heap as loaded) over a database that holds
\* session s1.
InitFn ==
    /\ Session = ("s1" :> [chaosThreshold |-> 100, ended |-> FALSE])
    /\ Stats = ("s1" :> ([sessionId |-> "s1"] @@ DEFAULT_STATS))
    /\ TimelineEvent = ("s1" :> << "system" >>)
    /\ Achievement \in { ("s1" :> a) : a \in FnUnlocked }
    /\ Archive = ("s1" :> << >>)
    /\ MultiplayerMatch = EmptyObject
    /\ LAW_DELTAS = LAW_DELTAS_INIT
    /\ CRISIS_DELTAS = CRISIS_DELTAS_INIT
    /\ ObjectPrototype = EmptyObject
    /\ handled = 0
    /\ req = NoRequest
    /\ resp = [route |-> "none", status |-> 0]
    /\ applyCalls = << >>
    /\ handlers = EmptyObject
    /\ fnStats \in FnVectors
    /\ fnRet = NoCall
    /\ window = PageLoaded

FnApplyDeltas(deltas) ==
    /\ fnRet' = [fn |-> "applyDeltas", stats |-> fnStats, deltas |-> deltas,
                 ret |-> applyDeltas(fnStats, deltas)]
    /\ UNCHANGED << dbVars, heapVars, handled, req, resp, applyCalls,
                    loopVars, uiVars, fnStats >>

FnCheckGameOver(chaosThreshold) ==
    /\ fnRet' = [fn |-> "checkGameOver", stats |-> fnStats, chaosThreshold |-> chaosThreshold,
                 ret |-> checkGameOver(fnStats, chaosThreshold)]
    /\ UNCHANGED << dbVars, heapVars, handled, req, resp, applyCalls,
                    loopVars, uiVars, fnStats >>

FnCheckRebellionChance ==
    /\ fnRet' = [fn |-> "checkRebellionChance", stats |-> fnStats,
                 ret |-> checkRebellionChance(fnStats)]
    /\ UNCHANGED << dbVars, heapVars, handled, req, resp, applyCalls,
                    loopVars, uiVars, fnStats >>

\* evaluateAchievements(sessionId, stats) on session s1's rows; `prev` holds
\* what the call before returned when that was evaluateAchievements too
FnEvaluateAchievements ==
    LET ev == evaluateAchievements("s1", fnStats, Achievement, TimelineEvent)
    IN /\ fnRet' = [fn |-> "evaluateAchievements", stats |-> fnStats,
                    before |-> [Achievement |-> Achievement, TimelineEvent |-> TimelineEvent],
                    prev |-> IF fnRet.fn = "evaluateAchievements" THEN << fnRet.ret >> ELSE << >>,
                    ret |-> ev.found]
       /\ Achievement' = ev.Achievement
       /\ TimelineEvent' = ev.TimelineEvent
       /\ UNCHANGED << Session, Stats, Archive, MultiplayerMatch, heapVars, handled, req, resp,
                       applyCalls, loopVars, uiVars, fnStats >>

NextFn ==
    \/ \E deltas \in FnDeltas : FnApplyDeltas(deltas)
    \/ FnEvaluateAchievements
    \/ \E chaosThreshold \in FnThresholds : FnCheckGameOver(chaosThreshold)
    \/ FnCheckRebellionChance

SpecFn == InitFn /\ [][NextFn]_vars

-----------------------------------------------------------------------------
(* The archive encoder, called between the requests of a running server *)

\* payloads the encoder is called on: a short one and one that is padded
\* differently and holds a scalar above one byte
FnPayloads == { << 1, 50 >>, << 2, 300, 0, 7 >> }

\* the Archive rows written so far: one for every call a handler has made of
\* compressToGlyphs
ArchiveRows ==
    Cardinality({ p \in (DOMAIN Archive) \X (1..MaxRequests) : p[2] <= Len(Archive[p[1]]) })

\* compressToGlyphs(obj); `seen` keeps, for every payload, what the first call
\* on it returned and how many Archive rows there were then
FnCompressToGlyphs(obj) ==
    LET seen == IF fnRet.fn = "compressToGlyphs" THEN fnRet.seen ELSE EmptyObject
        ret == compressToGlyphs(obj)
        call == [ret |-> ret, rows |-> ArchiveRows]
    IN /\ fnRet' = [fn |-> "compressToGlyphs", obj |-> obj, rows |-> ArchiveRows, ret |-> ret,
                    seen |-> IF obj \in DOMAIN seen THEN seen ELSE seen @@ (obj :> call)]
       /\ UNCHANGED << dbVars, heapVars, handled, req, resp, applyCalls,
                       loopVars, uiVars, fnStats >>

NextArchive ==
    \/ \E chaosThreshold \in Thresholds : SessionStart(chaosThreshold)
    \/ \E sessionId \in SessionRequests : SessionEnd(sessionId)
    \/ \E sessionId \in SessionRequests : ArchiveExport(sessionId)
    \/ \E obj \in FnPayloads : FnCompressToGlyphs(obj)

SpecArchive == Init /\ [][NextArchive]_vars

-----------------------------------------------------------------------------
(* The browser page (core.js) in front of the server *)

\* the fields of the HUD
HudAxes == {"approval", "stability", "economy", "justice", "power", "chaos"}

\* updateHUD(s.approval, s.stability, s.economy, s.justice, s.power, s.chaos):
\* a field of the HUD is rewritten when the value read from s is a number,
\* and a property s does not have reads as undefined
updateHUD(hud, s) ==
    [k \in (DOMAIN hud) \cup (HudAxes \cap DOMAIN s) |-> IF k \in HudAxes \cap DOMAIN s THEN s[k] ELSE hud[k]]

\* await api(path, 'POST', body): the server runs the handler of the route on
\* the body and answers
api(path, body) ==
    CASE path = "/session/start"    -> PostSessionStart(body)
      [] path = "/laws/enforce"     -> PostLawsEnforce(body)
      [] path = "/crises/resolve"   -> PostCrisesResolve(body)
      [] path = "/diplomacy/action" -> PostDiplomacyAction(body)
      [] path = "/rebellion/act"    -> PostRebellionAct(body)
      [] path = "/cosmic/act"       -> PostCosmicAct(body)

\* if (!sessionId) return showDialogue('Start a session first.'): nothing is
\* sent
showDialogue(name) ==
    /\ window' = [window EXCEPT !.handler = name, !.sent = FALSE, !.threw = FALSE]
    /\ UNCHANGED << dbVars, heapVars, handled, req, resp, applyCalls, fnVars, loopVars >>

\* An action handler from its api call on: const s = data.stats, then
\* updateHUD(s.approval, ...).  When the answer has no stats, s is undefined
\* and reading s.approval throws before the HUD is touched.
sendAction(name, path, body) ==
    /\ Listening
    /\ api(path, body)
    /\ window' = IF "stats" \in DOMAIN resp'
                 THEN [window EXCEPT !.hud = updateHUD(@, resp'.stats), !.handler = name,
                                     !.sent = TRUE, !.threw = FALSE]
                 ELSE [window EXCEPT !.handler = name, !.sent = TRUE, !.threw = TRUE]
    /\ UNCHANGED loopVars

\* startSession(): the body carries no chaosThreshold; the answer of
\* GET /session/:id/stats is { stats }, and updateHUD is given the properties
\* approval .. chaos of that answer itself.  The GET writes nothing and is not
\* counted.
startSession ==
    /\ Listening
    /\ api("/session/start", [playerName |-> "Player", country |-> "India", difficulty |-> "normal"])
    /\ LET stats == [stats |-> Stats'[resp'.sessionId]]
       IN window' = [window EXCEPT !.sessionId = resp'.sessionId, !.hud = updateHUD(@, stats),
                                   !.handler = "startSession", !.sent = TRUE, !.threw = FALSE]
    /\ UNCHANGED loopVars

handleEnforceLaw(lawType) ==
    LET sessionId == window.sessionId
    IN IF sessionId = Missing THEN showDialogue("handleEnforceLaw")
       ELSE sendAction("handleEnforceLaw", "/laws/enforce",
                       [sessionId |-> sessionId, lawType |-> lawType, description |-> "Law enforced"])

handleResolveCrisis(strategy) ==
    LET sessionId == window.sessionId
    IN IF sessionId = Missing THEN showDialogue("handleResolveCrisis")
       ELSE sendAction("handleResolveCrisis", "/crises/resolve",
                       [sessionId |-> sessionId, strategy |-> strategy, description |-> "Crisis handled"])

handleDiplomacy(action) ==
    LET sessionId == window.sessionId
    IN IF sessionId = Missing THEN showDialogue("handleDiplomacy")
       ELSE sendAction("handleDiplomacy", "/diplomacy/action",
                       [sessionId |-> sessionId, action |-> action])

handleRebellion(strategy) ==
    LET sessionId == window.sessionId
    IN IF sessionId = Missing THEN showDialogue("handleRebellion")
       ELSE sendAction("handleRebellion", "/rebellion/act",
                       [sessionId |-> sessionId, strategy |-> strategy])

handleCosmic(kind) ==
    LET sessionId == window.sessionId
    IN IF sessionId = Missing THEN showDialogue("handleCosmic")
       ELSE sendAction("handleCosmic", "/cosmic/act",
                       [sessionId |-> sessionId, kind |-> kind])

\* returnToTitle(): window.current.sessionId = null
returnToTitle ==
    /\ window' = [window EXCEPT !.sessionId = Missing, !.handler = "returnToTitle",
                                !.sent = FALSE, !.threw = FALSE]
    /\ UNCHANGED << dbVars, heapVars, handled, req, resp, applyCalls, fnVars, loopVars >>

\* what the page's controls pass to the handlers: the keys of the server's
\* tables and the crisis methods
NextPage ==
    \/ startSession
    \/ \E lawType \in DOMAIN LAW_DELTAS_INIT : handleEnforceLaw(lawType)
    \/ \E strategy \in (DOMAIN CRISIS_DELTAS_INIT) \cup {"bold", "measured"} : handleResolveCrisis(strategy)
    \/ \E action \in DOMAIN DIPLOMACY_DELTAS : handleDiplomacy(action)
    \/ \E strategy \in DOMAIN REBELLION_DELTAS : handleRebellion(strategy)
    \/ \E kind \in DOMAIN COSMIC_DELTAS : handleCosmic(kind)
    \/ returnToTitle

SpecPage == Init /\ [][NextPage]_vars

-----------------------------------------------------------------------------
(* The event loop: requests that arrive while other requests are in flight *)

\* Requests arrive until this many have.
MaxArrivals == 3

\* the requests that arrive, numbered
RequestIds == 1..MaxArrivals

\* deltaA of the /multiplayer/update requests that arrive
LoopDeltaA == [approval |-> 60, stability |-> 40]

\* what the arriving requests carry: /laws/enforce for a session, or
\* /multiplayer/update for match m1 with deltaA
LoopBodies ==
    { Request("/laws/enforce", s, k, Missing) : s \in SessionIds, k \in {"tax_cut", "emergency_rule"} }
    \cup { Request("/multiplayer/update", Missing, "m1", Missing) }

handlerAwaits_afterRead == TRUE

\* Whether a handler gives the event loop back between getStatsStmt.get and
\* upsertStats.run: the handlers are plain functions and every statement
\* they run is synchronous (better-sqlite3), so they do not.
handlerAwaits == FALSE

\* The process has just started over a database that holds two sessions and a
\* match between them.
InitLoop ==
    /\ Session = [s \in SessionIds |-> [chaosThreshold |-> 100, ended |-> FALSE]]
    /\ Stats = [s \in SessionIds |-> ([sessionId |-> s] @@ DEFAULT_STATS)]
    /\ TimelineEvent = [s \in SessionIds |-> << "system", "system" >>]
    /\ Achievement = [s \in SessionIds |-> << >>]
    /\ Archive = [s \in SessionIds |-> << >>]
    /\ MultiplayerMatch = ("m1" :> [sessionAId |-> "s1", sessionBId |-> "s2", ended |-> FALSE])
    /\ LAW_DELTAS = LAW_DELTAS_INIT
    /\ CRISIS_DELTAS = CRISIS_DELTAS_INIT
    /\ ObjectPrototype = EmptyObject
    /\ handled = 0
    /\ req = NoRequest
    /\ resp = [route |-> "none", status |-> 0]
    /\ applyCalls = << >>
    /\ handlers = EmptyObject
    /\ fnStats = DEFAULT_STATS
    /\ fnRet = NoCall
    /\ window = PageLoaded

\* the session whose Stats row the handler of a request reads and writes
Target(request) ==
    IF request.route = "/laws/enforce" THEN request.sessionId
    ELSE MultiplayerMatch[request.key].sessionAId

\* A request arrives and its handler callback is queued; this can happen at
\* any time, also while a handler is running.
LoopReceive(id, body) ==
    /\ id \notin DOMAIN handlers
    /\ handlers' = handlers @@ (id :> [request |-> body, pc |-> "queued", statsRow |-> << >>])
    /\ UNCHANGED << dbVars, heapVars, handled, req, resp, applyCalls, fnVars, uiVars >>

\* The event loop calls a queued handler, which runs up to its read of the
\* session's row: getStatsStmt.get. The loop calls a callback only when no
\* other is running: a handler that has started is out of the way only if it
\* awaits.
LoopRead(id) ==
    /\ id \in DOMAIN handlers
    /\ handlers[id].pc = "queued"
    /\ \A other \in DOMAIN handlers : handlers[other].pc = "read" => handlerAwaits
    /\ handlers' = [handlers EXCEPT ![id].pc = "read",
                                    ![id].statsRow = << Stats[Target(handlers[id].request)] >>]
    /\ UNCHANGED << dbVars, heapVars, handled, req, resp, applyCalls, fnVars, uiVars >>

\* The rest of the /laws/enforce handler, from the row it read
LoopLawsWrite(id) ==
    /\ id \in DOMAIN handlers
    /\ handlers[id].pc = "read"
    /\ handlers[id].request.route = "/laws/enforce"
    /\ LawsEnforceFrom(handlers[id].statsRow[1], handlers[id].request.sessionId,
                       handlers[id].request.key)
    /\ handlers' = [handlers EXCEPT ![id].pc = "done"]
    /\ UNCHANGED uiVars

\* The rest of the /multiplayer/update handler, from the row it read for
\* session A: applyDeltas, upsertStats.run, pushTimeline, res.json
LoopMultiplayerWrite(id) ==
    /\ id \in DOMAIN handlers
    /\ handlers[id].pc = "read"
    /\ handlers[id].request.route = "/multiplayer/update"
    /\ LET a == Target(handlers[id].request)
           call == Call(handlers[id].statsRow[1], View(LoopDeltaA, ObjectPrototype))
       IN /\ Stats' = upsertStats(Stats, call.ret.s)
          /\ TimelineEvent' = pushTimeline(TimelineEvent, a, "system")
          /\ applyCalls' = << call >>
    /\ req' = handlers[id].request
    /\ resp' = [route |-> "/multiplayer/update", status |-> 200, ok |-> TRUE]
    /\ handled' = handled + 1
    /\ handlers' = [handlers EXCEPT ![id].pc = "done"]
    /\ UNCHANGED << Session, Achievement, Archive, MultiplayerMatch, heapVars, fnVars, uiVars >>

NextLoop ==
    \/ \E id \in RequestIds, body \in LoopBodies : LoopReceive(id, body)
    \/ \E id \in RequestIds : LoopRead(id)
    \/ \E id \in RequestIds : LoopLawsWrite(id)
    \/ \E id \in RequestIds : LoopMultiplayerWrite(id)

SpecLoop == InitLoop /\ [][NextLoop]_vars

-----------------------------------------------------------------------------
(* Claims *)

Sum0(x) == IF x < 0 THEN 0 ELSE x

\* the calls of applyDeltas a state records: those of the last request, and
\* the one the function harness made
ApplyCallsMade ==
    Range(applyCalls) \cup
    (IF fnRet.fn = "applyDeltas" THEN { [stats |-> fnRet.stats, deltas |-> fnRet.deltas, ret |-> fnRet.ret] }
     ELSE {})

\* C1: in every reachable state each of approval, stability, economy, justice
\* and power of every session is an integer in [0, 100].
C1_AxesInRange ==
    \A s \in DOMAIN Stats : \A axis \in BoundedAxes : Stats[s][axis] \in 0..100

\* C1 witness: a request whose delta would take an axis above 100 has been
\* applied to a session, and the axis stands at 100.
C1_Witness ==
    \E i \in 1..Len(applyCalls) : \E axis \in BoundedAxes :
        LET c == applyCalls[i]
        IN /\ axis \in DOMAIN c.deltas
           /\ c.stats[axis] + c.deltas[axis] > 100
           /\ Stats[c.stats.sessionId][axis] = 100

\* C2: chaos is >= 0 in every reachable state, and every call
\* applyDeltas(v, d) with v.chaos >= 0 and chaos in d returns
\* max(0, v.chaos + d.chaos), with no cap at 100.
C2_ChaosFloorOnly ==
    /\ \A s \in DOMAIN Stats : Stats[s].chaos >= 0
    /\ \A c \in ApplyCallsMade :
          (c.stats.chaos >= 0 /\ "chaos" \in DOMAIN c.deltas)
             => c.ret.s.chaos = Sum0(c.stats.chaos + c.deltas.chaos)

\* C2 witness: a session's chaos has been raised above 100 by a request.
C2_Witness ==
    \E i \in 1..Len(applyCalls) :
        /\ "chaos" \in DOMAIN applyCalls[i].deltas
        /\ Stats[applyCalls[i].stats.sessionId].chaos > 100

\* C3 (as claimed): from one state to the next neither laws nor crises of a
\* session decreases, whatever the request.
C3_CountersNeverDecrease ==
    [][\A s \in DOMAIN Stats :
          /\ Stats'[s].laws >= Stats[s].laws
          /\ Stats'[s].crises >= Stats[s].crises]_vars

\* the number of Achievement rows of session s with key k
AchievementCount(s, k) == Cardinality({i \in 1..Len(Achievement[s]) : Achievement[s][i] = k})

\* C4 (as claimed): at most one Achievement row per (sessionId, key).
C4_OneAchievementPerKey ==
    \A s \in DOMAIN Achievement : \A k \in Range(Achievement[s]) : AchievementCount(s, k) <= 1

\* C5: a call of evaluateAchievements right after a call with the same
\* session and vector returns the empty list and inserts no Achievement row
\* and no timeline row.
C5_EvaluateIdempotent ==
    (fnRet.fn = "evaluateAchievements" /\ fnRet.prev # << >>)
       => /\ fnRet.ret = << >>
          /\ Achievement = fnRet.before.Achievement
          /\ TimelineEvent = fnRet.before.TimelineEvent

\* C5 witness: the second of two calls in a row, the first of which unlocked
\* something.
C5_Witness ==
    /\ fnRet.fn = "evaluateAchievements"
    /\ fnRet.prev # << >>
    /\ fnRet.prev[1] # << >>

\* C6: checkGameOver(v, T) reports game over exactly when chaos >= T or
\* stability <= 0 or approval <= 0, with the reason of the first of the three
\* that holds, in that order.
C6_GameOverPriority ==
    fnRet.fn = "checkGameOver" =>
        LET v == fnRet.stats
            T == fnRet.chaosThreshold
            r == fnRet.ret
        IN /\ r.gameOver = (v.chaos >= T \/ v.stability <= 0 \/ v.approval <= 0)
           /\ v.chaos >= T => r.reason = "Chaos exceeded threshold"
           /\ (v.chaos < T /\ v.stability <= 0) => r.reason = "Stability collapsed"
           /\ (v.chaos < T /\ v.stability > 0 /\ v.approval <= 0) => r.reason = "Approval vanished"

\* C6 witness: checkGameOver has been called on a vector that breaches all
\* three thresholds at once.
C6_Witness ==
    /\ fnRet.fn = "checkGameOver"
    /\ fnRet.stats.chaos >= fnRet.chaosThreshold
    /\ fnRet.stats.stability <= 0
    /\ fnRet.stats.approval <= 0
    /\ fnRet.ret.gameOver

Clamped(x) == IF x < 0 THEN 0 ELSE IF x > 100 THEN 100 ELSE x

ScenarioDelta ==
    [approval |-> -10, stability |-> 10, justice |-> -8, power |-> 12, chaos |-> 5, laws |-> 1]

\* C7: applyDeltas(v, d) returns clamp(v[axis] + d[axis], 0, 100) for each
\* bounded axis in d and adds d.laws and d.crises to the counters unclamped;
\* the emergency-rule delta applied to the default vector gives approval 40,
\* stability 60, economy 50, justice 42, power 62, chaos 5, laws 1.
C7_ApplyDeltasValues ==
    fnRet.fn = "applyDeltas" =>
        LET v == fnRet.stats
            d == fnRet.deltas
            r == fnRet.ret.s
        IN /\ \A axis \in BoundedAxes \cap DOMAIN d : r[axis] = Clamped(v[axis] + d[axis])
           /\ "laws" \in DOMAIN d => r.laws = v.laws + d.laws
           /\ "crises" \in DOMAIN d => r.crises = v.crises + d.crises
           /\ (v = DEFAULT_STATS /\ d = ScenarioDelta) =>
                 r = [approval |-> 40, stability |-> 60, economy |-> 50, justice |-> 42,
                      power |-> 62, chaos |-> 5, laws |-> 1, crises |-> 0]

\* C7 witness: the scenario's call has been made.
C7_Witness ==
    /\ fnRet.fn = "applyDeltas"
    /\ fnRet.stats = DEFAULT_STATS
    /\ fnRet.deltas = ScenarioDelta
    /\ fnRet.ret.s.laws = 1

\* C8: every field whose key the delta lacks (reading it yields undefined) has
\* the same value in the result as in the input, and the input object is left
\* as it was.
C8_ApplyDeltasFrame ==
    fnRet.fn = "applyDeltas" =>
        /\ \A k \in DOMAIN fnRet.stats :
              k \notin DOMAIN fnRet.deltas => fnRet.ret.s[k] = fnRet.stats[k]
        /\ DOMAIN fnRet.ret.s = DOMAIN fnRet.stats
        /\ fnRet.ret.stats = fnRet.stats

\* C8 witness: a call whose delta names some fields and not others has
\* changed the vector.
C8_Witness ==
    /\ fnRet.fn = "applyDeltas"
    /\ fnRet.ret.s # fnRet.stats
    /\ \E k \in DOMAIN fnRet.stats : k \notin DOMAIN fnRet.deltas

ActionRoutes ==
    {"/laws/enforce", "/crises/resolve", "/diplomacy/action", "/rebellion/act", "/cosmic/act"}

\* C9 (as claimed): a successful /laws/enforce adds exactly 1 to laws and
\* leaves crises; a successful /crises/resolve adds exactly 1 to crises and
\* leaves laws; diplomacy, rebellion and cosmic requests leave both.
C9_CountersStepByOne ==
    [][(handled' = handled + 1 /\ resp'.route \in ActionRoutes) =>
          LET s == resp'.stats.sessionId
              dLaws == Stats'[s].laws - Stats[s].laws
              dCrises == Stats'[s].crises - Stats[s].crises
          IN /\ dLaws = (IF resp'.route = "/laws/enforce" THEN 1 ELSE 0)
             /\ dCrises = (IF resp'.route = "/crises/resolve" THEN 1 ELSE 0)]_vars

\* n / 2 rounded to the nearest integer, halves upwards
RoundHalfUp(n) == CHOOSE r \in (n \div 2)..((n \div 2) + 1) : 2 * r \in {n, n + 1}

SatisfiesInvariants(v) ==
    /\ \A axis \in BoundedAxes : v[axis] \in 0..100
    /\ v.chaos >= 0

\* C11: on every vector that satisfies the stat-vector invariants, an active
\* rebellion reported by checkRebellionChance has an integer intensity in
\* [0, 100], whichever of the two branches reported it.
C11_IntensityInRange ==
    (fnRet.fn = "checkRebellionChance" /\ SatisfiesInvariants(fnRet.stats) /\ fnRet.ret.rebellion)
       => fnRet.ret.intensity \in 0..100

\* C11 witness: a call on a vector within the invariants whose halved sum is
\* above 100, answered with intensity 100.
C11_Witness ==
    /\ fnRet.fn = "checkRebellionChance"
    /\ SatisfiesInvariants(fnRet.stats)
    /\ fnRet.stats.chaos + (50 - fnRet.stats.stability) > 200
    /\ fnRet.ret.rebellion
    /\ fnRet.ret.intensity = 100

\* the keys of the delta table an action route looks its key up in, at process start
TableKeys(route) ==
    CASE route = "/laws/enforce"     -> DOMAIN LAW_DELTAS_INIT
      [] route = "/crises/resolve"   -> DOMAIN CRISIS_DELTAS_INIT
      [] route = "/diplomacy/action" -> DOMAIN DIPLOMACY_DELTAS
      [] route = "/rebellion/act"    -> DOMAIN REBELLION_DELTAS
      [] route = "/cosmic/act"       -> DOMAIN COSMIC_DELTAS

\* the per-axis sum of two deltas, an axis absent from one counting as 0
SumDelta(a, b) ==
    [k \in (DOMAIN a) \cup (DOMAIN b) |->
        (IF k \in DOMAIN a THEN a[k] ELSE 0) + (IF k \in DOMAIN b THEN b[k] ELSE 0)]

\* the fallback delta of each action category, counters included
FallbackDelta(route, method) ==
    CASE route = "/laws/enforce"     -> [approval |-> 0, laws |-> 1]
      [] route = "/crises/resolve"   -> SumDelta([approval |-> -2, crises |-> 1], MethodMod(method))
      [] route = "/diplomacy/action" -> [approval |-> 0]
      [] route = "/rebellion/act"    -> [approval |-> 0]
      [] route = "/cosmic/act"       -> [chaos |-> 5]

\* C12 (as claimed): an action request whose key is not an entry of its
\* category's table is served with status 200 and leaves the session's vector
\* equal to the vector it read with the category's fallback delta applied,
\* nothing else changed.
C12_UnknownKeyFallback ==
    (req.route \in ActionRoutes /\ req.key \notin TableKeys(req.route)) =>
        /\ resp.status = 200
        /\ Len(applyCalls) = 1
        /\ Stats[req.sessionId] =
              applyAll(applyCalls[1].stats, FallbackDelta(req.route, req.method))

\* a stored vector an action request may be applied to: the bounded fields in
\* [0, 100] and neither counter negative
WellFormed(v) ==
    /\ \A axis \in BoundedAxes : v[axis] \in 0..100
    /\ v.laws >= 0
    /\ v.crises >= 0

\* C13 (as claimed): an action request on a session whose stored vector has a
\* bounded field outside [0, 100] or a negative counter is rejected before any
\* mutation; that is, every action request that was served, and so wrote the
\* vector and the timeline, had read a well-formed vector.
C13_MalformedStateRejected ==
    req.route \in ActionRoutes =>
        \A i \in 1..Len(applyCalls) : WellFormed(applyCalls[i].stats)

\* the base delta of a crisis key: its table entry, or the fallback for a key
\* no object defines
CrisisBase(key) ==
    IF key \in DOMAIN CRISIS_DELTAS_INIT THEN CRISIS_DELTAS_INIT[key] ELSE [approval |-> -2]

ChaosGameOverReported ==
    /\ req.route \in ActionRoutes
    /\ "gameOver" \in DOMAIN resp
    /\ resp.gameOver.gameOver
    /\ resp.gameOver.reason = "Chaos exceeded threshold"

\* C15 (as claimed): once an action request has left a session at or above
\* its chaos threshold and reported game over, a later law, crisis, diplomacy,
\* rebellion or cosmic request for that session leaves its stat vector as it
\* was.
C15_EndedAfterGameOver ==
    [][(ChaosGameOverReported /\ req'.route \in ActionRoutes /\ req'.sessionId = req.sessionId)
          => Stats'[req.sessionId] = Stats[req.sessionId]]_vars

\* C16 (as claimed): a request that has stored an updated vector has then run
\* the achievement check on it (every rule that holds on the stored vector is
\* recorded for the session) and the threshold checks on it (the response
\* carries the rebellion risk and the game-over verdict of the stored vector).
C16_ChecksAfterEveryUpdate ==
    applyCalls # << >> =>
        /\ \A i \in 1..Len(applyCalls) :
              LET s == applyCalls[i].stats.sessionId
              IN \A j \in 1..Len(ACHIEVEMENT_RULES) :
                    RuleCondition(ACHIEVEMENT_RULES[j], Stats[s])
                       => ACHIEVEMENT_RULES[j] \in Range(Achievement[s])
        /\ {"stats", "achievements", "rebellion", "gameOver"} \subseteq DOMAIN resp
        /\ resp.stats = Stats[resp.stats.sessionId]
        /\ resp.rebellion = checkRebellionChance(resp.stats)
        /\ resp.gameOver.gameOver =
              (\/ resp.stats.chaos >= OrElse(Session[resp.stats.sessionId].chaosThreshold, 100)
               \/ resp.stats.stability <= 0
               \/ resp.stats.approval <= 0)

\* TABLE[key] || fallback in a process that has served no request yet
FreshLookup(table, key, fallback) ==
    IF key \in DOMAIN table THEN table[key]
    ELSE IF key = "__proto__" THEN EmptyObject
    ELSE fallback

\* the delta an action request hands to applyDeltas in a process that has
\* served no request yet
FreshDelta(r) ==
    CASE r.route = "/laws/enforce" ->
             SetProp(FreshLookup(LAW_DELTAS_INIT, r.key, [approval |-> 0]), "laws", 1)
      [] r.route = "/crises/resolve" ->
             SetProp(SumDelta(FreshLookup(CRISIS_DELTAS_INIT, r.key, [approval |-> -2]),
                              MethodMod(r.method)), "crises", 1)
      [] r.route = "/diplomacy/action" -> FreshLookup(DIPLOMACY_DELTAS, r.key, [approval |-> 0])
      [] r.route = "/rebellion/act" -> FreshLookup(REBELLION_DELTAS, r.key, [approval |-> 0])
      [] r.route = "/cosmic/act" -> FreshLookup(COSMIC_DELTAS, r.key, [chaos |-> 5])

\* C17 (as claimed): an action request served for session A leaves the
\* vector, the achievements and the timeline of every other session as they
\* were, and what it does to A's vector does not depend on the requests served
\* for other sessions: as long as A has enforced no law of its own, its vector
\* becomes what the same request gives in a process that has served nothing.
C17_SessionsIndependent ==
    [][(handled' = handled + 1 /\ req'.route \in ActionRoutes) =>
          LET A == req'.sessionId
          IN /\ \A B \in (DOMAIN Stats) \ {A} :
                   /\ Stats'[B] = Stats[B]
                   /\ Achievement'[B] = Achievement[B]
                   /\ TimelineEvent'[B] = TimelineEvent[B]
             /\ "law" \notin Range(TimelineEvent[A])
                   => Stats'[A] = applyAll(Stats[A], FreshDelta(req'))]_vars

\* the /laws/enforce requests for session s answered so far
LawsServed(s) ==
    {id \in DOMAIN handlers :
        /\ handlers[id].pc = "done"
        /\ handlers[id].request.route = "/laws/enforce"
        /\ handlers[id].request.sessionId = s}

\* C18: however the requests arrive, a handler that has read a session's row
\* writes it back with no other handler's write to that session in between
\* (the row it holds is still the stored one), and the laws counter of every
\* session equals the number of /laws/enforce requests answered for it.
C18_SerializedPerSession ==
    /\ \A id \in DOMAIN handlers :
          handlers[id].pc = "read"
             => Stats[Target(handlers[id].request)] = handlers[id].statsRow[1]
    /\ \A s \in DOMAIN Stats : Stats[s].laws = Cardinality(LawsServed(s))

\* C18 witness: a request for a session has been answered, a second handler
\* has read the same session's row and not yet written it, and a third
\* request for that session has arrived meanwhile.
C18_Witness ==
    \E a, b, c \in DOMAIN handlers :
        /\ handlers[a].pc = "done"
        /\ handlers[b].pc = "read"
        /\ handlers[c].pc = "queued"
        /\ Target(handlers[a].request) = Target(handlers[b].request)
        /\ Target(handlers[b].request) = Target(handlers[c].request)
        /\ Stats[Target(handlers[b].request)].laws >= 1

\* C19: evaluateAchievements(s1, v) returns, and appends to the session's
\* Achievement rows with one timeline row each, exactly the keys among
\* stable_mandate (stability >= 90), economic_wizard (economy >= 90),
\* chaos_master (chaos >= 80), iron_fist (power >= 90 and justice < 30), in
\* that order, whose predicate holds on v and that the session had not
\* recorded; it records nothing else.
C19_EvaluateExactly ==
    fnRet.fn = "evaluateAchievements" =>
        LET v == fnRet.stats
            had == Range(fnRet.before.Achievement["s1"])
            pick(key, holds) == IF holds /\ key \notin had THEN << key >> ELSE << >>
            expected == pick("stable_mandate", v.stability >= 90)
                        \o pick("economic_wizard", v.economy >= 90)
                        \o pick("chaos_master", v.chaos >= 80)
                        \o pick("iron_fist", v.power >= 90 /\ v.justice < 30)
        IN /\ fnRet.ret = expected
           /\ Achievement["s1"] = fnRet.before.Achievement["s1"] \o expected
           /\ TimelineEvent["s1"] =
                 fnRet.before.TimelineEvent["s1"] \o [i \in 1..Len(expected) |-> "achievement"]

\* C19 witness: a call on a vector on which chaos_master and at least two
\* other rules hold, for a session that had chaos_master recorded already, has
\* returned the others.
C19_Witness ==
    /\ fnRet.fn = "evaluateAchievements"
    /\ fnRet.stats.chaos >= 80
    /\ "chaos_master" \in Range(fnRet.before.Achievement["s1"])
    /\ Len(fnRet.ret) >= 2
    /\ "chaos_master" \notin Range(fnRet.ret)

\* C20 (as claimed): in every state every entry of the delta tables has the
\* keys and values it had at process start. (No statement of the program
\* writes to an object of the diplomacy, rebellion or cosmic table, which is
\* why these three are not state of the model.)
C20_TablesReadOnly ==
    /\ \A k \in DOMAIN LAW_DELTAS_INIT : LAW_DELTAS[k] = LAW_DELTAS_INIT[k]
    /\ DOMAIN LAW_DELTAS = DOMAIN LAW_DELTAS_INIT
    /\ \A k \in DOMAIN CRISIS_DELTAS_INIT : CRISIS_DELTAS[k] = CRISIS_DELTAS_INIT[k]
    /\ DOMAIN CRISIS_DELTAS = DOMAIN CRISIS_DELTAS_INIT

\* the routes that archive a session
ArchiveRoutes == {"/session/end", "/archive/export"}

\* the last response answered an archive request: a served one, or one that
\* was rejected with 400 or 404
ArchiveAnswered(r) ==
    \/ r.route \in ArchiveRoutes
    \/ r.route = "rejected" /\ r.path \in ArchiveRoutes

\* C21: a /session/end or /archive/export request, served or rejected, leaves
\* every stat vector and every achievement row as they were, and one that is
\* rejected leaves the Archive table as it was.
C21_ArchiveFrame ==
    [][(handled' = handled + 1 /\ ArchiveAnswered(resp')) =>
          /\ Stats' = Stats
          /\ Achievement' = Achievement
          /\ (resp'.status # 200 => Archive' = Archive)]_vars

\* C21 witness: a /session/end request has just been rejected with 404 while
\* another session, which holds an achievement, has been archived before.
C21_Witness ==
    /\ resp.route = "rejected"
    /\ resp.path = "/session/end"
    /\ resp.status = 404
    /\ \E s \in DOMAIN Archive : Len(Archive[s]) = 1 /\ Len(Achievement[s]) >= 1

\* C24: an action request that is answered with 400 or 404 leaves the stat
\* vector, the achievement rows and the timeline rows of every session as they
\* were.
C24_RejectedWritesNothing ==
    [][(handled' = handled + 1 /\ resp'.route = "rejected" /\ resp'.path \in ActionRoutes) =>
          /\ resp'.status \in {400, 404}
          /\ Stats' = Stats
          /\ Achievement' = Achievement
          /\ TimelineEvent' = TimelineEvent]_vars

\* C24 witness: an action request has just been rejected with 404 while a
\* session with a changed vector, an achievement and timeline rows exists.
C24_Witness ==
    /\ resp.route = "rejected"
    /\ resp.path \in ActionRoutes
    /\ resp.status = 404
    /\ \E s \in DOMAIN Stats :
          /\ Stats[s].laws + Stats[s].crises >= 1
          /\ Len(Achievement[s]) >= 1
          /\ Len(TimelineEvent[s]) >= 2

\* the routes whose response carries a game-over status
GameOverRoutes == {"/laws/enforce", "/crises/resolve", "/rebellion/act", "/cosmic/act"}

\* C23 (as claimed): the game-over status in the response of a served law,
\* crisis, rebellion or cosmic request is checkGameOver of the returned vector
\* with the chaos threshold stored in the session's row at session start,
\* whatever that threshold is.
C23_StoredThreshold ==
    (req.route \in GameOverRoutes /\ resp.status = 200) =>
        resp.gameOver = checkGameOver(resp.stats, Session[req.sessionId].chaosThreshold)

ActionHandlers ==
    {"handleEnforceLaw", "handleResolveCrisis", "handleDiplomacy", "handleRebellion",
     "handleCosmic"}

\* C25 (as claimed): after an action handler of the page has run with a
\* session id in window.current, a request was sent, the server served it (so
\* applyDeltas ran and the session's vector was stored) and the HUD shows the
\* returned vector; after one has run with sessionId null, no request was sent.
C25_FrontendActions ==
    window.handler \in ActionHandlers =>
        IF window.sessionId # Missing
        THEN /\ window.sent
             /\ resp.status = 200
             /\ Len(applyCalls) = 1
             /\ Stats[window.sessionId] = resp.stats
             /\ \A k \in HudAxes : k \in DOMAIN window.hud /\ window.hud[k] = resp.stats[k]
        ELSE ~window.sent

=============================================================================
